---- MODULE Spec2Model ----
(***************************************************************************)
(* Model of the bootstrapper/updater of src/bootstrapper.py: the update    *)
(* operations (CLI update, GUI download-update, GUI install-from-file)     *)
(* acting on the install directory, the config-preservation area and the   *)
(* rotating backup directory; and of the click loop of src/autoclicker.py.  *)
(*                                                                         *)
(* A directory tree is a function from relative paths to file contents.    *)
(* A path is a pair <<dir, name>>; dir = "" for a file at the top level.   *)
(***************************************************************************)
EXTENDS Integers, Sequences, FiniteSets, TLC

\* ------------------------------------------------------------------ bounds
MaxFaults == 2     \* I/O errors the environment raises in one behaviour
MaxStreak == 6     \* consecutive successful updates counted
MaxTime == 6       \* wall-clock seconds the clock may advance
MaxPartial == 1    \* files a bulk copy, removal or extraction that fails has left or written
MaxLoopThreads == 2 \* click threads of the autoclicker alive at once
MaxAfter == 2      \* callbacks waiting in the autoclicker's event queue
MaxClicks == 2     \* the largest click limit entered; clicks one loop counts

\* --------------------------------------------------------- program constants
APP_VERSION == "0.0.1"
KEEP_BACKUPS == 5
NoPath == -1       \* backup_path = None
NoExit == -1       \* the process has not exited
NBlocks == 2       \* blocks of block_size bytes a package is downloaded in
NDeps == 3         \* len(self.dependencies)
rollback_on_error == TRUE

Threads == {1, 2}

\* keep_files, in the order of the list the code iterates over
keep_files == << <<"", "config.json">>, <<"", "profiles.json">>,
                 <<"", "macros.json">>, <<"", "license.json">> >>
KeepSet == {keep_files[i] : i \in 1..Len(keep_files)}
VersionFile == <<"", "version.txt">>

\* ------------------------------------------------------------ tree helpers
EmptyTree == [p \in {} |-> ""]
Restrict(tree, S) == [p \in S |-> tree[p]]
\* copy the files of src over dst (an existing file is overwritten)
CopyOver(dst, src) ==
    [p \in DOMAIN dst \cup DOMAIN src |-> IF p \in DOMAIN src THEN src[p] ELSE dst[p]]
NoDir == [exists |-> FALSE, files |-> EmptyTree]
Dir(tree) == [exists |-> TRUE, files |-> tree]

\* what a bulk write that fails part-way may have written of tree
Partials(tree) ==
    {Restrict(tree, S) : S \in {X \in SUBSET DOMAIN tree : Cardinality(X) <= MaxPartial}}

\* the top-level directories and files of an extracted tree (iterdir)
TopDirs(tree) == {p[1] : p \in DOMAIN tree} \ {""}
TopFiles(tree) == {p \in DOMAIN tree : p[1] = ""}

\* 'autoclicker' in item.name.lower()
KeywordNames == {"autoclicker-ultimate", "Autoclicker-main"}
HasKeyword(name) == name \in KeywordNames

\* shutil.copytree(extracted_app, INSTALL_DIR): the files of directory d, re-rooted
AppTree(tree, d) ==
    [q \in {<<"", p[2]>> : p \in {r \in DOMAIN tree : r[1] = d}} |-> tree[<<d, q[2]>>]]

\* Path.suffix: the last extension of the file name
Suffix(name) ==
    CASE name = "update.zip" -> ".zip"
      [] name = "pkg.tar" -> ".tar"
      [] name = "pkg.tar.gz" -> ".gz"
      [] name = "pkg.tgz" -> ".tgz"
      [] OTHER -> ".bin"
IsZip(name) == Suffix(name) = ".zip"
IsTar(name) == Suffix(name) \in {".tar", ".tar.gz", ".tgz"}

\* ------------------------------------------------------------------ inputs
\* what the release server answers to check_for_updates: the version scraped from
\* the release page ("" when the request fails or nothing matches), and the
\* manifest (version "" when the request fails; hash "" when it declares none)
Remotes ==
    { [page |-> "",      version |-> "2.0.0", hash |-> "h1"],
      [page |-> "2.0.0", version |-> "2.0.0", hash |-> "h1"],
      [page |-> "",      version |-> "0.0.1", hash |-> "h1"],
      [page |-> "",      version |-> "",      hash |-> ""] }

\* extracted contents of the packages
AppPackageTree ==
    [p \in { <<"autoclicker-ultimate", "autoclicker.py">>,
             <<"autoclicker-ultimate", "requirements.txt">>,
             <<"autoclicker-ultimate", "config.json">>,
             <<"", "README.md">> } |-> IF p[2] = "config.json" THEN "pkgcfg" ELSE "new"]
FlatPackageTree ==
    [p \in { <<"", "autoclicker.py">>, <<"lib", "core.py">> } |-> "new"]

NoPkg == [name |-> "", tree |-> EmptyTree, corrupt |-> FALSE, hash |-> ""]
\* what download_update may fetch into update.zip
ServerPackages ==
    { [name |-> "update.zip", tree |-> AppPackageTree,  corrupt |-> FALSE, hash |-> "h1"],
      [name |-> "update.zip", tree |-> FlatPackageTree, corrupt |-> FALSE, hash |-> "h2"],
      [name |-> "update.zip", tree |-> EmptyTree,       corrupt |-> TRUE,  hash |-> "h2"] }
\* the files the user may pick in the install-from-file dialog
LocalFiles ==
    { [name |-> "update.zip", tree |-> AppPackageTree, corrupt |-> FALSE, hash |-> "h1"],
      [name |-> "update.zip", tree |-> EmptyTree,      corrupt |-> TRUE,  hash |-> "h2"],
      [name |-> "setup.exe",  tree |-> EmptyTree,      corrupt |-> FALSE, hash |-> "h2"],
      [name |-> "pkg.tar.gz", tree |-> AppPackageTree, corrupt |-> FALSE, hash |-> "h1"],
      [name |-> "pkg.tgz",    tree |-> FlatPackageTree, corrupt |-> FALSE, hash |-> "h2"] }

\* the installations the operations may start from
InstalledTree ==
    [p \in { <<"", "autoclicker.py">>, <<"", "requirements.txt">>, <<"", "config.json">>,
             <<"", "old.dat">>, <<"data", "clicks.log">> }
        |-> IF p[2] = "config.json" THEN "user" ELSE "old"]
InitInstalls == { NoDir, Dir(InstalledTree) }

\* the launcher and the uninstaller that setup_environment writes into CONFIG_DIR
ScriptsTree == [p \in { <<"", "launcher.py">>, <<"", "uninstaller.py">> } |-> "script"]

\* what may lie beside bootstrapper.py: the application's files, or the entry
\* point alone
FullSource == {"autoclicker.py", "requirements.txt", "README.md"}
Sources == { FullSource, {"autoclicker.py"} }

\* ------------------------------------------------------------------- state
VARIABLES
    install,    \* INSTALL_DIR: [exists, files]
    cfgArea,    \* the files lying directly in CONFIG_DIR: copies of whitelisted
                \* files, the launcher and the uninstaller
    backups,    \* BACKUP_DIR: snapshot name (its timestamp) -> archived tree
    now,        \* datetime.now(), in whole seconds
    active,     \* the threads that run operations
    th,         \* per thread: position and locals of the running operation
    faults,     \* I/O errors raised so far
    streak,     \* consecutive successful updates that each created a backup
    recent,     \* names of the snapshots of those updates, most recent last (at most 5)
    outcomes,   \* what callers were told after a rollback: <<restore result, report>>
    source,     \* the names of the files lying beside bootstrapper.py
    last,       \* what the previous operation was and how it ended
    clicker     \* the autoclicker window: its click state, event queue and loop threads

vars == <<install, cfgArea, backups, now, active, th, faults, streak, recent, outcomes,
          source, last, clicker>>

Idle ==
    [ pc |-> "idle", kind |-> "none", latest_version |-> "", manifest_hash |-> "",
      update_path |-> NoPkg, onDisk |-> FALSE, verified |-> "none",
      backup_path |-> NoPath, backup |-> "none", temp_extract |-> EmptyTree,
      result |-> "none", report |-> "none", faultAt |-> "none", restored |-> "none",
      pre |-> NoDir, preBackups |-> {},
      available |-> FALSE, error |-> FALSE, progress |-> << >>, failed |-> "none",
      exit |-> NoExit, printed |-> "none", preCfg |-> EmptyTree, preflight |-> "none" ]

Set(t, r) == th' = [th EXCEPT ![t] = r]

\* ------------------------------------------------- autoclicker click state
LoopIds == 1..MaxLoopThreads
Keys == {"hold", "autoclicker"}

\* a thread slot: pc is where the thread is, "none" when no thread runs in it
NoLoop == [pc |-> "none", click_count |-> 0]

\* Autoclicker.__init__: not clicking, hold mode off, nothing queued, no thread
ClickerInit ==
    [ clicking |-> FALSE, hold_mode_var |-> FALSE, hold_key_pressed |-> FALSE,
      click_limit |-> 0, down |-> {}, after |-> << >>,
      loop |-> [i \in LoopIds |-> NoLoop] ]

\* no operation has run yet
NoLast == [kind |-> "none", result |-> "none", latest_version |-> "",
           installed |-> FALSE, version |-> "none"]

InitCommon ==
    /\ install \in InitInstalls
    /\ cfgArea = (IF install.exists THEN ScriptsTree ELSE EmptyTree)
    /\ source = FullSource
    /\ last = NoLast
    /\ clicker = ClickerInit
    /\ now = 0
    /\ th = [t \in Threads |-> Idle]
    /\ streak = 0
    /\ recent = << >>
    /\ outcomes = {}

\* the backup directory is empty
NoBackups == [n \in {} |-> EmptyTree]
\* the backup directory holds 5 snapshots whose names are later than the local
\* time now: they were taken before the clock was set back (end of daylight
\* saving time, a correction of the clock)
LaterBackups == [n \in (MaxTime + 2)..(MaxTime + 1 + KEEP_BACKUPS) |-> EmptyTree]

Init == InitCommon /\ backups = NoBackups /\ active = {1} /\ faults = 0

\* ----------------------------------------------------------- pure functions
\* Updater.check_for_updates with self.current_version = APP_VERSION:
\* the release page first, the manifest as the fallback, else the error record
check_for_updates(r) ==
    IF r.page # ""
    THEN [available |-> r.page # APP_VERSION, latest_version |-> r.page, error |-> FALSE]
    ELSE IF r.version # ""
    THEN [available |-> r.version # APP_VERSION, latest_version |-> r.version, error |-> FALSE]
    ELSE [available |-> FALSE, latest_version |-> "", error |-> TRUE]

\* Updater.verify_update(update_path, expected_hash); expected_hash "" is None
verify_update(p, expected_hash) ==
    IF expected_hash # "" /\ p.hash # expected_hash THEN FALSE
    ELSE IF IsZip(p.name) THEN ~p.corrupt
    ELSE IF IsTar(p.name) THEN ~p.corrupt
    ELSE TRUE

\* the expected_hash argument the callers of verify_update pass: none
CallerExpectedHash(manifest_hash) == ""

\* _create_backup, the archive: os.walk(INSTALL_DIR) yields the path of every file
\* below the install directory; each is stored under its path relative to it
InstallRoot == "INSTALL_DIR"
Walk(files) == {<<InstallRoot>> \o p : p \in DOMAIN files}
Arcname_NameOnly(file_path) == <<"", file_path[3]>>
Arcname(file_path) == SubSeq(file_path, 2, 3)
ZipOf(files) ==
    [a \in {Arcname(fp) : fp \in Walk(files)}
        |-> files[Tail(CHOOSE fp \in Walk(files) : Arcname(fp) = a)]]

\* backups[:-5] of the sorted snapshot names is deleted: the 5 largest names stay
Rotate_KeepsAll(b) == b
Rotate(b) ==
    Restrict(b, {n \in DOMAIN b : Cardinality({m \in DOMAIN b : m > n}) < KEEP_BACKUPS})

\* the message the caller shows once apply_update has returned
ApplyReport(res) ==
    IF res = "true" THEN "Update applied successfully" ELSE "Failed to apply update"

\* ------------------------------------------ starting an operation, fetching
Begin(t, k) ==
    [Idle EXCEPT !.kind = k, !.pre = install, !.preBackups = DOMAIN backups,
                 !.preCfg = cfgArea]

\* CLI.update up to the download: check, print, ask "Download and install update?"
StartCliUpdate(t) ==
    /\ t \in active
    /\ th[t].pc = "idle"
    /\ streak < MaxStreak
    /\ \E r \in Remotes, yes \in BOOLEAN :
         LET info == check_for_updates(r) IN
         Set(t, [Begin(t, "cli") EXCEPT
                   !.latest_version = info.latest_version,
                   !.available = info.available,
                   !.error = info.error,
                   !.manifest_hash = r.hash,
                   !.pc = IF info.available /\ yes THEN "download" ELSE "done",
                   !.report = IF info.available THEN "none"
                              ELSE "You have the latest version"])
    /\ UNCHANGED <<install, cfgArea, backups, now, active, faults, streak, recent, outcomes, source, last, clicker>>

\* BootstrapGUI.download_update up to the start of the worker thread
StartGuiDownload(t) ==
    /\ t \in active
    /\ th[t].pc = "idle"
    /\ streak < MaxStreak
    /\ \E r \in Remotes :
         LET info == check_for_updates(r) IN
         Set(t, [Begin(t, "gui") EXCEPT
                   !.latest_version = info.latest_version,
                   !.available = info.available,
                   !.error = info.error,
                   !.manifest_hash = r.hash,
                   !.pc = IF info.available THEN "download" ELSE "done"])
    /\ UNCHANGED <<install, cfgArea, backups, now, active, faults, streak, recent, outcomes, source, last, clicker>>

\* BootstrapGUI.manual_update: a file is picked and confirmed; apply_update is called
StartManualUpdate(t) ==
    /\ t \in active
    /\ th[t].pc = "idle"
    /\ streak < MaxStreak
    /\ \E f \in LocalFiles :
         Set(t, [Begin(t, "manual") EXCEPT
                   !.update_path = f, !.onDisk = TRUE, !.pc = "apply"])
    /\ UNCHANGED <<install, cfgArea, backups, now, active, faults, streak, recent, outcomes, source, last, clicker>>

\* progress_callback((downloaded / total_size) * 100) after each of n blocks of
\* equal size, from a server that declares the size
DownloadProgress(n) == [i \in 1..n |-> (i * 100) \div NBlocks]

\* download_update returned None: "if update_path and ..." / "if not update_path"
DownloadFailed_GoesOn(r) == [r EXCEPT !.pc = "apply"]
DownloadFailed(r) ==
    [r EXCEPT !.pc = "done",
              !.report = IF r.kind = "cli" THEN "Update verification failed"
                         ELSE "Failed to download update"]

\* Updater.download_update and the caller's test of its result; the GUI passes
\* a progress callback, the CLI none
DownloadUpdate(t) ==
    /\ t \in active
    /\ th[t].pc = "download"
    /\ \/ \E p \in ServerPackages :
            Set(t, [th[t] EXCEPT
                      !.update_path = p, !.onDisk = TRUE, !.pc = "verify",
                      !.progress = IF th[t].kind = "gui"
                                   THEN DownloadProgress(NBlocks) ELSE << >>])
       \/ \* the request fails, or the connection breaks after n blocks
          \E n \in 0..(NBlocks - 1) :
            Set(t, DownloadFailed([th[t] EXCEPT
                      !.onDisk = (n > 0),
                      !.progress = IF th[t].kind = "gui"
                                   THEN DownloadProgress(n) ELSE << >>]))
    /\ UNCHANGED <<install, cfgArea, backups, now, active, faults, streak, recent, outcomes, source, last, clicker>>

\* the callers' verify_update(update_path) and their test of its result
VerifyUpdate(t) ==
    /\ t \in active
    /\ th[t].pc = "verify"
    /\ LET ok == verify_update(th[t].update_path, CallerExpectedHash(th[t].manifest_hash)) IN
         Set(t, [th[t] EXCEPT
                   !.verified = IF ok THEN "ok" ELSE "failed",
                   !.pc = IF ok THEN "apply" ELSE "done",
                   !.report = IF ok THEN "none" ELSE "Update verification failed"])
    /\ UNCHANGED <<install, cfgArea, backups, now, active, faults, streak, recent, outcomes, source, last, clicker>>

\* ----------------------------------------------------------- apply_update
\* apply_update returns res to its caller, which reports it
Return(r, res) == [r EXCEPT !.pc = "done", !.result = res, !.report = ApplyReport(res)]
\* an exception raised in the try block at step: control passes to the handler
Raise(r, step) == [r EXCEPT !.pc = "except", !.faultAt = step]

\* the environment raises an I/O error (disk full, permission, file in use)
IOError == faults < MaxFaults /\ faults' = faults + 1
NoIOError == faults' = faults

\* "if not backup_path: return False"
BackupFailed_NoAbort(r) == [r EXCEPT !.backup = "failed", !.pc = "extract"]
BackupFailed(r) == Return([r EXCEPT !.backup = "failed"], "false")

\* the first step of the try block of apply_update: the extraction
FirstStep_KeepAndRemove == "keep"
FirstStep == "extract"

\* the snapshot names created so far, the last 5
Remember(log, n) ==
    LET all == Append(log, n) IN
    IF Len(all) > KEEP_BACKUPS THEN SubSeq(all, 2, Len(all)) ELSE all

\* apply_update, the backup: _create_backup when rollback is requested and the
\* install directory exists. _create_backup writes backup_<now>.zip from a walk of
\* the install directory, then rotates; any exception makes it return None.
CreateBackup(t) ==
    /\ t \in active
    /\ th[t].pc = "apply"
    /\ IF rollback_on_error /\ install.exists
       THEN \/ /\ backups' = Rotate(CopyOver(backups, [n \in {now} |-> ZipOf(install.files)]))
               /\ Set(t, [th[t] EXCEPT !.backup_path = now, !.backup = "created",
                                       !.pc = FirstStep])
               /\ NoIOError
            \/ \* the archive cannot be created
               /\ IOError
               /\ Set(t, BackupFailed(th[t]))
               /\ UNCHANGED backups
            \/ \* writing the archive fails (disk full): a truncated archive is left
               /\ IOError
               /\ backups' = CopyOver(backups, [n \in {now} |-> EmptyTree])
               /\ Set(t, BackupFailed(th[t]))
       ELSE /\ Set(t, [th[t] EXCEPT !.pc = FirstStep])
            /\ UNCHANGED <<backups, faults>>
    /\ UNCHANGED <<install, cfgArea, now, active, streak, recent, outcomes, source, last, clicker>>

\* extraction into a fresh temp dir, the format chosen by update_path.suffix
Extract(t) ==
    /\ t \in active
    /\ th[t].pc = "extract"
    /\ LET p == th[t].update_path IN
       IF IsZip(p.name) \/ IsTar(p.name)
       THEN IF p.corrupt
            THEN Set(t, Raise(th[t], "extract")) /\ NoIOError
            ELSE \/ Set(t, [th[t] EXCEPT !.temp_extract = p.tree, !.pc = "stop"]) /\ NoIOError
                 \/ Set(t, Raise(th[t], "extract")) /\ IOError
       ELSE Set(t, Return([th[t] EXCEPT !.failed = "Unsupported archive format"], "false"))
            /\ NoIOError
    /\ UNCHANGED <<install, cfgArea, backups, now, active, streak, recent, outcomes, source, last, clicker>>

\* _stop_running_instances: best effort; proc.wait(timeout=5) may raise
StopRunningInstances(t) ==
    /\ t \in active
    /\ th[t].pc = "stop"
    /\ \/ Set(t, [th[t] EXCEPT !.pc = "keep"]) /\ NoIOError
       \/ Set(t, Raise(th[t], "stop")) /\ IOError
    /\ UNCHANGED <<install, cfgArea, backups, now, active, streak, recent, outcomes, source, last, clicker>>

\* the first i names of keep_files
KeepPrefix(i) == {keep_files[j] : j \in 1..i}

\* "if INSTALL_DIR.exists()": copy the whitelisted files out into CONFIG_DIR
KeepConfigs(t) ==
    /\ t \in active
    /\ th[t].pc = "keep"
    /\ IF install.exists
       THEN \/ /\ cfgArea' = CopyOver(cfgArea, Restrict(install.files, KeepSet \cap DOMAIN install.files))
               /\ Set(t, [th[t] EXCEPT !.pc = "rmtree"])
               /\ NoIOError
            \/ \E i \in 0..(Len(keep_files) - 1) :
                 /\ keep_files[i + 1] \in DOMAIN install.files
                 /\ cfgArea' = CopyOver(cfgArea,
                                  Restrict(install.files, KeepPrefix(i) \cap DOMAIN install.files))
                 /\ Set(t, Raise(th[t], "keep"))
                 /\ IOError
       ELSE /\ Set(t, [th[t] EXCEPT !.pc = "copy"])
            /\ UNCHANGED <<cfgArea, faults>>
    /\ UNCHANGED <<install, backups, now, active, streak, recent, outcomes, source, last, clicker>>

\* shutil.rmtree(INSTALL_DIR): the directory and everything below it is gone
Removed_LeavesFiles(inst) == inst
Removed(inst) == NoDir

RemoveOld(t) ==
    /\ t \in active
    /\ th[t].pc = "rmtree"
    /\ IF install.exists
       THEN \/ /\ install' = Removed(install)
               /\ Set(t, [th[t] EXCEPT !.pc = "copy"])
               /\ NoIOError
            \/ \* a file cannot be removed: the removal stops part-way
               /\ install' \in {install} \cup {Dir(rest) : rest \in Partials(install.files)}
               /\ Set(t, Raise(th[t], "rmtree"))
               /\ IOError
       ELSE \* the directory is gone already
            /\ Set(t, Raise(th[t], "rmtree"))
            /\ UNCHANGED <<install, faults>>
    /\ UNCHANGED <<cfgArea, backups, now, active, streak, recent, outcomes, source, last, clicker>>

\* "Copy new files": the first top-level directory whose name holds the keyword is
\* copied as the install directory (copytree needs the target not to exist); without
\* one, every top-level item is copied into the install directory, in iterdir order
\* (copytree creates missing parents, copy2 does not).
CopyNewFiles(t) ==
    /\ t \in active
    /\ th[t].pc = "copy"
    /\ LET temp == th[t].temp_extract
           apps == {d \in TopDirs(temp) : HasKeyword(d)}
           \* the kinds of item iterdir may yield first
           firsts == (IF TopDirs(temp) # {} THEN {"dir"} ELSE {})
                     \cup (IF TopFiles(temp) # {} THEN {"file"} ELSE {})
       IN
       IF apps # {}
       THEN \E d \in apps :
              IF install.exists
              THEN /\ UNCHANGED <<install, faults>>
                   /\ Set(t, Raise(th[t], "copy"))
              ELSE \/ /\ install' = Dir(AppTree(temp, d))
                      /\ Set(t, [th[t] EXCEPT !.pc = "restorecfg"])
                      /\ NoIOError
                   \/ /\ \E part \in Partials(AppTree(temp, d)) : install' = Dir(part)
                      /\ Set(t, Raise(th[t], "copy"))
                      /\ IOError
       ELSE IF firsts = {}
       THEN /\ UNCHANGED <<install, faults>>
            /\ Set(t, [th[t] EXCEPT !.pc = "restorecfg"])
       ELSE \E first \in firsts :
              IF (~install.exists /\ first = "file")
                 \/ TopDirs(temp) \cap TopDirs(install.files) # {}
              THEN /\ UNCHANGED <<install, faults>>
                   /\ Set(t, Raise(th[t], "copy"))
              ELSE \/ /\ install' = Dir(CopyOver(install.files, temp))
                      /\ Set(t, [th[t] EXCEPT !.pc = "restorecfg"])
                      /\ NoIOError
                   \/ /\ \E part \in Partials(temp) :
                           install' = Dir(CopyOver(install.files, part))
                      /\ Set(t, Raise(th[t], "copy"))
                      /\ IOError
    /\ UNCHANGED <<cfgArea, backups, now, active, streak, recent, outcomes, source, last, clicker>>

\* "Restore configs": every whitelisted file found in CONFIG_DIR is copied in
RestoreConfigs_Skip(files, area) == files
RestoreConfigsTree(files, area) == CopyOver(files, Restrict(area, KeepSet \cap DOMAIN area))

RestoreConfigs(t) ==
    /\ t \in active
    /\ th[t].pc = "restorecfg"
    /\ IF KeepSet \cap DOMAIN cfgArea = {}
       THEN /\ UNCHANGED <<install, faults>>
            /\ Set(t, [th[t] EXCEPT !.pc = "version"])
       ELSE IF install.exists
       THEN \/ /\ install' = Dir(RestoreConfigsTree(install.files, cfgArea))
               /\ Set(t, [th[t] EXCEPT !.pc = "version"])
               /\ NoIOError
            \/ /\ UNCHANGED install
               /\ Set(t, Raise(th[t], "restorecfg"))
               /\ IOError
       ELSE \* no install directory to copy into
            /\ UNCHANGED <<install, faults>>
            /\ Set(t, Raise(th[t], "restorecfg"))
    /\ UNCHANGED <<cfgArea, backups, now, active, streak, recent, outcomes, source, last, clicker>>

\* "Update version": version.txt receives self.current_version
WrittenVersion(latest_version) == APP_VERSION

WriteVersion(t) ==
    /\ t \in active
    /\ th[t].pc = "version"
    /\ IF install.exists
       THEN \/ /\ install' = Dir(CopyOver(install.files,
                              [p \in {VersionFile} |-> WrittenVersion(th[t].latest_version)]))
               /\ Set(t, [th[t] EXCEPT !.pc = "cleanup"])
               /\ NoIOError
            \/ /\ UNCHANGED install
               /\ Set(t, Raise(th[t], "version"))
               /\ IOError
       ELSE /\ UNCHANGED <<install, faults>>
            /\ Set(t, Raise(th[t], "version"))
    /\ UNCHANGED <<cfgArea, backups, now, active, streak, recent, outcomes, source, last, clicker>>

\* "Cleanup": rmtree(temp_extract), update_path.unlink(), return True
Cleanup(t) ==
    /\ t \in active
    /\ th[t].pc = "cleanup"
    /\ \/ /\ Set(t, Return([th[t] EXCEPT !.temp_extract = EmptyTree, !.onDisk = FALSE], "true"))
          /\ NoIOError
       \/ \* rmtree of the temp dir fails
          /\ Set(t, Raise(th[t], "cleanup"))
          /\ IOError
       \/ \* the temp dir is removed, unlink of the package fails
          /\ Set(t, Raise([th[t] EXCEPT !.temp_extract = EmptyTree], "cleanup"))
          /\ IOError
    /\ UNCHANGED <<install, cfgArea, backups, now, active, streak, recent, outcomes, source, last, clicker>>

\* _restore_backup, when it succeeds: rmtree, mkdir, extractall of the snapshot
RestoredTree_NoRmtree(current, snapshot) == CopyOver(current, snapshot)
RestoredTree(current, snapshot) == snapshot

\* the except block: "if rollback_on_error and backup_path: _restore_backup(...)",
\* whose result is dropped, then "return False"
Rollback(t) ==
    /\ t \in active
    /\ th[t].pc = "except"
    /\ LET bp == th[t].backup_path IN
       IF rollback_on_error /\ bp # NoPath
       THEN IF bp \in DOMAIN backups
            THEN \/ /\ install' = Dir(RestoredTree(install.files, backups[bp]))
                    /\ Set(t, Return([th[t] EXCEPT !.restored = "ok"], "false"))
                    /\ outcomes' = outcomes \cup {<<"ok", ApplyReport("false")>>}
                    /\ NoIOError
                 \/ \* rmtree done, then mkdir or extractall fails
                    /\ install' \in {NoDir} \cup {Dir(part) : part \in Partials(backups[bp])}
                    /\ Set(t, Return([th[t] EXCEPT !.restored = "failed"], "false"))
                    /\ outcomes' = outcomes \cup {<<"failed", ApplyReport("false")>>}
                    /\ IOError
            ELSE \* the snapshot file is gone: rmtree and mkdir done, ZipFile raises
                 /\ install' = Dir(EmptyTree)
                 /\ Set(t, Return([th[t] EXCEPT !.restored = "failed"], "false"))
                 /\ outcomes' = outcomes \cup {<<"failed", ApplyReport("false")>>}
                 /\ NoIOError
       ELSE /\ UNCHANGED <<install, faults, outcomes>>
            /\ Set(t, Return(th[t], "false"))
    /\ UNCHANGED <<cfgArea, backups, now, active, streak, recent, source, last, clicker>>

\* A snapshot that no running operation holds the path of is never opened again
\* (the rotation lists and unlinks snapshots, nothing else reads them): once the
\* operation is over, the state keeps its name and drops its content.
Shelve(b, t) ==
    [n \in DOMAIN b |->
        IF \E u \in active \ {t} : th[u].backup_path = n THEN b[n] ELSE EmptyTree]

\* the operation is over; the next one may start
Finish(t) ==
    /\ t \in active
    /\ th[t].pc = "done"
    /\ Set(t, Idle)
    /\ backups' = Shelve(backups, t)
    /\ UNCHANGED <<install, cfgArea, now, active, faults, streak, recent, outcomes, source, last, clicker>>

\* the same, counting the consecutive successful updates that each created a
\* backup and logging the names of their snapshots
FinishCounted(t) ==
    /\ t \in active
    /\ th[t].pc = "done"
    /\ Set(t, Idle)
    /\ backups' = Shelve(backups, t)
    /\ IF th[t].result = "true" /\ th[t].backup = "created"
       THEN streak' = streak + 1 /\ recent' = Remember(recent, th[t].backup_path)
       ELSE IF th[t].result = "none"
       THEN UNCHANGED <<streak, recent, outcomes>>
       ELSE streak' = 0 /\ recent' = << >>
    /\ UNCHANGED <<install, cfgArea, now, active, faults, outcomes, source, last, clicker>>

\* A second passes. The clock is read by _create_backup only, and snapshot names
\* are only compared with one another: the seconds that change what the next
\* _create_backup does are those that pass once a snapshot bears the current name.
Tick ==
    /\ now < MaxTime
    /\ now \in DOMAIN backups
    /\ \E t \in active : th[t].pc = "apply"
    /\ now' = now + 1
    /\ UNCHANGED <<install, cfgArea, backups, active, th, faults, streak, recent, outcomes, source, last, clicker>>

Work(t) ==
    \/ StartCliUpdate(t)
    \/ StartGuiDownload(t)
    \/ StartManualUpdate(t)
    \/ DownloadUpdate(t)
    \/ VerifyUpdate(t)
    \/ CreateBackup(t)
    \/ Extract(t)
    \/ StopRunningInstances(t)
    \/ KeepConfigs(t)
    \/ RemoveOld(t)
    \/ CopyNewFiles(t)
    \/ RestoreConfigs(t)
    \/ WriteVersion(t)
    \/ Cleanup(t)
    \/ Rollback(t)

\* ------------------------------------------------- install, status, launch
\* Installer.check_installation: the required files exist in the install directory
check_installation(inst) ==
    /\ inst.exists
    /\ {<<"", "autoclicker.py">>, <<"", "requirements.txt">>} \subseteq DOMAIN inst.files

\* the "version" entry of a config.json in the install directory: CLI.install and
\* the GUI installation write APP_VERSION, the package ships the one of its release
ConfigVersion(content) == IF content = "pkgcfg" THEN "2.0.0" ELSE APP_VERSION

\* config.get('version', ...) of INSTALL_DIR/config.json, as CLI.status reads it
PersistedVersion(inst) ==
    IF inst.exists /\ <<"", "config.json">> \in DOMAIN inst.files
    THEN ConfigVersion(inst.files[<<"", "config.json">>]) ELSE "none"

\* what the pre-flight checks would find on this machine: nothing wrong, an old
\* interpreter, an unsupported OS, or less than 1 GiB of free disk space
Preflights == {"ok", "python", "os", "disk"}

Installs == {"install", "guiinstall"}

\* the process of the command ends: main() returns after the handler returned
\* (exit code 0); an exception that nothing catches ends it with exit code 1
Returned(r, res, msg) ==
    [r EXCEPT !.pc = "done", !.result = res, !.report = msg,
              !.exit = IF r.kind = "guiinstall" THEN NoExit ELSE 0]
Uncaught(r, msg) ==
    [r EXCEPT !.pc = "done", !.result = "false", !.report = msg, !.exit = 1]

\* update_progress(value, message) of the GUI installation; the CLI has none
Progress(r, values) ==
    IF r.kind = "guiinstall" THEN [r EXCEPT !.progress = r.progress \o values] ELSE r

\* CLI.install, "1. Checking system": check_python_version, then check_os
StartCliInstall(t) ==
    /\ t \in active
    /\ th[t].pc = "idle"
    /\ \E env \in Preflights :
         LET r == [Begin(t, "install") EXCEPT !.preflight = env] IN
         Set(t, IF env = "python"
                THEN Returned([r EXCEPT !.failed = "check"], "false",
                              "Python version check failed!")
                ELSE IF env = "os"
                THEN Returned([r EXCEPT !.failed = "check"], "false", "OS not supported!")
                ELSE [r EXCEPT !.pc = "inst_env"])
    /\ UNCHANGED <<install, cfgArea, backups, now, active, faults, streak, recent, outcomes,
                   source, last, clicker>>

\* BootstrapGUI.start_installation and the head of _install_thread: the results of
\* the system check are shown in the installation tab, the button starts the
\* installation whatever they are
StartGuiInstall(t) ==
    /\ t \in active
    /\ th[t].pc = "idle"
    /\ \E env \in Preflights :
         Set(t, Progress([Begin(t, "guiinstall") EXCEPT !.preflight = env,
                                                       !.pc = "inst_env"], <<10>>))
    /\ UNCHANGED <<install, cfgArea, backups, now, active, faults, streak, recent, outcomes,
                   source, last, clicker>>

\* Installer.setup_environment and the caller's test of its result: the
\* directories are made, the launcher and the uninstaller written; any exception
\* makes it return False
SetupEnvironment(t) ==
    /\ t \in active
    /\ th[t].pc = "inst_env"
    /\ \/ /\ install' = (IF install.exists THEN install ELSE Dir(EmptyTree))
          /\ cfgArea' = CopyOver(cfgArea, ScriptsTree)
          /\ Set(t, [th[t] EXCEPT !.pc = "inst_deps"])
          /\ NoIOError
       \/ \* a directory cannot be made
          /\ UNCHANGED <<install, cfgArea>>
          /\ Set(t, Returned([th[t] EXCEPT !.failed = "environment"], "false",
                             "Failed to setup environment!"))
          /\ IOError
       \/ \* the directories are made, a script cannot be written
          /\ install' = (IF install.exists THEN install ELSE Dir(EmptyTree))
          /\ UNCHANGED cfgArea
          /\ Set(t, Returned([th[t] EXCEPT !.failed = "environment"], "false",
                             "Failed to setup environment!"))
          /\ IOError
    /\ UNCHANGED <<backups, now, active, streak, recent, outcomes, source, last, clicker>>

\* progress_callback((i / len(self.dependencies)) * 100, ...) for the dependencies
\* 0 .. k-1, in whole percent
DependencyProgress(k) == [j \in 1..k |-> ((j - 1) * 100) \div NDeps]

\* Installer.install_dependencies and the caller's test of its result: pip
\* installs the first k dependencies and fails on the next, or installs them all
InstallDependencies(t) ==
    /\ t \in active
    /\ th[t].pc = "inst_deps"
    /\ \E k \in 0..NDeps :
         LET r == Progress(th[t], <<30>>) IN
         Set(t, IF k < NDeps
                THEN Returned(Progress([r EXCEPT !.failed = "dependencies"],
                                       DependencyProgress(k + 1)),
                              "false", "Failed to install dependencies!")
                ELSE [Progress(r, DependencyProgress(NDeps) \o <<100>>)
                        EXCEPT !.pc = "inst_copy"])
    /\ UNCHANGED <<install, cfgArea, backups, now, active, faults, streak, recent, outcomes,
                   source, last, clicker>>

\* source_files of CLI.install and of the GUI installation
source_files(kind) ==
    IF kind = "install" THEN {"autoclicker.py", "key_manager.py", "requirements.txt"}
    ELSE {"autoclicker.py", "key_manager.py", "requirements.txt", "README.md", "LICENSE"}

\* the files an installation puts into the install directory: those of
\* source_files that lie beside bootstrapper.py, and the config it writes
InstalledFiles(kind) ==
    [p \in {<<"", f>> : f \in (source_files(kind) \cap source) \cup {"config.json"}}
        |-> IF p[2] = "config.json" THEN "installed" ELSE "new"]

\* "Copying application files" and "Create config", to the end of the installation
CopyApplicationFiles(t) ==
    /\ t \in active
    /\ th[t].pc = "inst_copy"
    /\ LET r == Progress(th[t], <<80>>) IN
       IF install.exists
       THEN \/ /\ install' = Dir(CopyOver(install.files, InstalledFiles(th[t].kind)))
               /\ Set(t, Returned(Progress(r, <<100>>), "true", "Installation complete!"))
               /\ NoIOError
            \/ \* a copy or the write of the config fails
               /\ \E part \in Partials(InstalledFiles(th[t].kind)) :
                    install' = Dir(CopyOver(install.files, part))
               /\ Set(t, IF th[t].kind = "install"
                         THEN Uncaught([r EXCEPT !.failed = "copy"], "Traceback")
                         ELSE Returned([r EXCEPT !.failed = "copy"], "false",
                                       "Installation failed"))
               /\ IOError
       ELSE \* the install directory is gone
            /\ UNCHANGED <<install, faults>>
            /\ Set(t, IF th[t].kind = "install"
                      THEN Uncaught([r EXCEPT !.failed = "copy"], "Traceback")
                      ELSE Returned([r EXCEPT !.failed = "copy"], "false",
                                    "Installation failed"))
    /\ UNCHANGED <<cfgArea, backups, now, active, streak, recent, outcomes, source, last, clicker>>

\* CLI.status: the installation status, the version of config.json, the update check
Status(t) ==
    /\ t \in active
    /\ th[t].pc = "idle"
    /\ \E r \in Remotes :
         LET info == check_for_updates(r)
             b == [Begin(t, "status") EXCEPT !.printed = PersistedVersion(install)]
         IN
         Set(t, IF check_installation(install)
                THEN Returned([b EXCEPT !.latest_version = info.latest_version,
                                        !.available = info.available,
                                        !.error = info.error],
                              "true",
                              IF info.available THEN "Update available"
                              ELSE "You have the latest version")
                ELSE Returned([b EXCEPT !.printed = "none"], "true", "Installed: No"))
    /\ UNCHANGED <<install, cfgArea, backups, now, active, faults, streak, recent, outcomes,
                   source, last, clicker>>

\* CLI.launch
Launch(t) ==
    /\ t \in active
    /\ th[t].pc = "idle"
    /\ \/ /\ ~(install.exists /\ <<"", "autoclicker.py">> \in DOMAIN install.files)
          /\ Set(t, Returned([Begin(t, "launch") EXCEPT !.failed = "entry point"], "false",
                             "Application not installed!"))
       \/ /\ install.exists /\ <<"", "autoclicker.py">> \in DOMAIN install.files
          /\ \E spawned \in BOOLEAN :
               Set(t, IF spawned
                      THEN Returned(Begin(t, "launch"), "true", "Application launched!")
                      ELSE Returned([Begin(t, "launch") EXCEPT !.failed = "spawn"], "false",
                                    "Failed to launch"))
    /\ UNCHANGED <<install, cfgArea, backups, now, active, faults, streak, recent, outcomes,
                   source, last, clicker>>

\* the operation is over and the next one may start; what it was and what it left
\* on disk is noted
FinishNoted(t) ==
    /\ t \in active
    /\ th[t].pc = "done"
    /\ Set(t, Idle)
    /\ backups' = Shelve(backups, t)
    /\ last' = [kind |-> th[t].kind, result |-> th[t].result,
                latest_version |-> th[t].latest_version,
                installed |-> check_installation(install),
                version |-> PersistedVersion(install)]
    /\ UNCHANGED <<install, cfgArea, now, active, faults, streak, recent, outcomes, source, clicker>>

InstallWork(t) ==
    \/ StartCliInstall(t)
    \/ StartGuiInstall(t)
    \/ SetupEnvironment(t)
    \/ InstallDependencies(t)
    \/ CopyApplicationFiles(t)
    \/ Status(t)
    \/ Launch(t)

\* one foreground control flow (the CLI, or the GUI used one operation at a time)
Next == (\E t \in Threads : Work(t) \/ Finish(t)) \/ Tick
Spec == Init /\ [][Next]_vars

\* the same control flow in an environment that raises no I/O error, observed by
\* the count of consecutive successful updates
InitRot ==
    InitCommon /\ backups \in {NoBackups, LaterBackups} /\ active = {1} /\ faults = MaxFaults
NextRot == (\E t \in Threads : Work(t) \/ FinishCounted(t)) \/ Tick
SpecRot == InitRot /\ [][NextRot]_vars

\* the commands and the GUI's operations, one at a time, on a machine where the
\* application's files may be missing beside bootstrapper.py
InitInst ==
    /\ install \in InitInstalls
    /\ cfgArea = (IF install.exists THEN ScriptsTree ELSE EmptyTree)
    /\ source \in Sources
    /\ last = NoLast
    /\ clicker = ClickerInit
    /\ backups = NoBackups
    /\ now = 0
    /\ th = [t \in Threads |-> Idle]
    /\ streak = 0
    /\ recent = << >>
    /\ outcomes = {}
    /\ active = {1}
    /\ faults = MaxFaults - 1
NextInst == \E t \in Threads : Work(t) \/ InstallWork(t) \/ FinishNoted(t)
SpecInst == InitInst /\ [][NextInst]_vars

\* the thread's operation is over and the thread runs no further one (the worker
\* thread ends; the UI thread goes back to its event loop)
Exit(t) ==
    /\ t \in active
    /\ th[t].pc = "done"
    /\ active' = active \ {t}
    /\ UNCHANGED <<install, cfgArea, backups, now, th, faults, streak, recent, outcomes, source, last, clicker>>

\* two operations at once (the GUI's UI thread installing from a file beside its
\* background download worker, or two bootstrapper processes), each thread running
\* one operation, in an environment that raises no I/O error
InitConc == InitCommon /\ backups = NoBackups /\ active = {1, 2} /\ faults = MaxFaults
\* ------------------------------------------------- autoclicker: click loop
updaterVars == <<install, cfgArea, backups, now, active, th, faults, streak, recent,
                 outcomes, source, last>>

HasFree(c) == \E i \in LoopIds : c.loop[i].pc = "none"

\* threading.Thread(target=...).start(): the thread begins at pc entry
StartThread(c, entry) ==
    LET i == CHOOSE j \in LoopIds : c.loop[j].pc = "none"
    IN  [c EXCEPT !.loop[i] = [pc |-> entry, click_count |-> 0]]

\* root.after(0, callback)
After(c, callback) == [c EXCEPT !.after = Append(@, callback)]

start_autoclicker(c, limit) ==
    StartThread([c EXCEPT !.clicking = TRUE, !.click_limit = limit], "delay")

stop_autoclicker(c) == [c EXCEPT !.clicking = FALSE]

toggle_autoclicker(c, limit) ==
    IF c.hold_mode_var THEN c
    ELSE IF c.clicking THEN stop_autoclicker(c) ELSE start_autoclicker(c, limit)

start_hold_clicking(c) ==
    IF c.clicking THEN c
    ELSE StartThread([c EXCEPT !.clicking = TRUE], "test")

stop_hold_clicking(c) == [c EXCEPT !.clicking = FALSE]

\* the callback would start a thread
Starts(c, callback) ==
    \/ callback = "toggle_autoclicker" /\ ~c.hold_mode_var /\ ~c.clicking
    \/ callback = "start_hold_clicking" /\ ~c.clicking

Run(c, callback, limit) ==
    CASE callback = "toggle_autoclicker" -> toggle_autoclicker(c, limit)
      [] callback = "stop_autoclicker" -> stop_autoclicker(c)
      [] callback = "start_hold_clicking" -> start_hold_clicking(c)
      [] callback = "stop_hold_clicking" -> stop_hold_clicking(c)

\* the keyboard listener thread: a key goes down (or repeats while held down)
OnPress(key) ==
    /\ Len(clicker.after) < MaxAfter
    /\ LET c == [clicker EXCEPT !.down = @ \cup {key}] IN
       clicker' =
           IF c.hold_mode_var /\ key = "hold"
           THEN IF ~c.hold_key_pressed
                THEN After([c EXCEPT !.hold_key_pressed = TRUE], "start_hold_clicking")
                ELSE c
           ELSE IF key = "autoclicker" THEN After(c, "toggle_autoclicker") ELSE c
    /\ UNCHANGED updaterVars

\* the keyboard listener thread: a key that is down goes up
OnRelease(key) ==
    /\ key \in clicker.down
    /\ Len(clicker.after) < MaxAfter
    /\ LET c == [clicker EXCEPT !.down = @ \ {key}] IN
       clicker' =
           IF c.hold_mode_var /\ key = "hold"
           THEN After([c EXCEPT !.hold_key_pressed = FALSE], "stop_hold_clicking")
           ELSE c
    /\ UNCHANGED updaterVars

\* the user ticks or clears the hold mode checkbox
HoldModeCheckbox ==
    /\ clicker' = [clicker EXCEPT !.hold_mode_var = ~@]
    /\ UNCHANGED updaterVars

\* the user clicks the start/stop button: toggle_autoclicker runs on the UI thread
ToggleButton ==
    /\ Starts(clicker, "toggle_autoclicker") => HasFree(clicker)
    /\ \E limit \in {0, MaxClicks} : clicker' = toggle_autoclicker(clicker, limit)
    /\ UNCHANGED updaterVars

\* the UI thread runs the oldest queued callback
RunAfter ==
    /\ clicker.after # << >>
    /\ LET callback == Head(clicker.after)
           c == [clicker EXCEPT !.after = Tail(@)]
       IN  /\ Starts(c, callback) => HasFree(c)
           /\ \E limit \in {0, MaxClicks} : clicker' = Run(c, callback, limit)
    /\ UNCHANGED updaterVars

\* _autoclicker_with_delay: the start delay is over (or was 0)
AutoclickerWithDelay(i) ==
    /\ clicker.loop[i].pc = "delay"
    /\ clicker' = [clicker EXCEPT !.loop[i].pc = IF clicker.clicking THEN "test" ELSE "none"]
    /\ UNCHANGED updaterVars

\* _autoclicker_loop: while self.clicking
LoopTest(i) ==
    /\ clicker.loop[i].pc = "test"
    /\ clicker' = [clicker EXCEPT !.loop[i] = IF clicker.clicking
                                             THEN [@ EXCEPT !.pc = "click"]
                                             ELSE NoLoop]
    /\ UNCHANGED updaterVars

\* _autoclicker_loop: the click, the count and the click limit; the count stops
\* at MaxClicks, beyond which no limit of the model tells counts apart
LoopClick(i) ==
    /\ clicker.loop[i].pc = "click"
    /\ LET n == IF clicker.loop[i].click_count < MaxClicks
                THEN clicker.loop[i].click_count + 1 ELSE MaxClicks
       IN  IF clicker.click_limit > 0 /\ n >= clicker.click_limit
           THEN /\ Len(clicker.after) < MaxAfter
                /\ clicker' = After([clicker EXCEPT !.loop[i] = NoLoop], "stop_autoclicker")
           ELSE clicker' = [clicker EXCEPT !.loop[i] = [pc |-> "sleep", click_count |-> n]]
    /\ UNCHANGED updaterVars

\* _autoclicker_loop: time.sleep returns
LoopSleep(i) ==
    /\ clicker.loop[i].pc = "sleep"
    /\ clicker' = [clicker EXCEPT !.loop[i].pc = "test"]
    /\ UNCHANGED updaterVars

InitClick == InitCommon /\ backups = NoBackups /\ active = {} /\ faults = MaxFaults
NextClick ==
    \/ \E key \in Keys : OnPress(key) \/ OnRelease(key)
    \/ HoldModeCheckbox
    \/ ToggleButton
    \/ RunAfter
    \/ \E i \in LoopIds : AutoclickerWithDelay(i) \/ LoopTest(i) \/ LoopClick(i) \/ LoopSleep(i)
SpecClick == InitClick /\ [][NextClick]_vars

\* The update is cut off between two steps. From the command line the user
\* presses Ctrl-C: KeyboardInterrupt is not an Exception, so no except block of
\* apply_update or of CLI.update runs. In the window the user closes it: mainloop
\* returns, the interpreter exits and the daemon worker thread is stopped where
\* it is. Nothing is restored.
Interrupt(t) ==
    /\ t \in active
    /\ th[t].kind \in {"cli", "gui"}
    /\ th[t].pc \notin {"idle", "done"}
    /\ Set(t, [th[t] EXCEPT !.pc = "done", !.result = "none",
                            !.report = "interrupted", !.failed = "interrupt"])
    /\ UNCHANGED <<install, cfgArea, backups, now, active, faults, streak, recent, outcomes, source, last, clicker>>

InitCancel == InitCommon /\ backups = NoBackups /\ active = {1} /\ faults = MaxFaults
NextCancel == (\E t \in Threads : Work(t) \/ Interrupt(t) \/ Finish(t)) \/ Tick
SpecCancel == InitCancel /\ [][NextCancel]_vars

NextConc == (\E t \in Threads : Work(t) \/ Exit(t)) \/ Tick
SpecConc == InitConc /\ [][NextConc]_vars

\* ------------------------------------------------------------------ claims
Done(t) == th[t].pc = "done"
Downloads == {"cli", "gui"}
\* the steps of apply_update that follow the removal of the old install directory
AfterDelete == {"copy", "restorecfg", "version", "cleanup"}
\* the positions inside apply_update
ApplyPcs == {"apply", "extract", "stop", "keep", "rmtree", "copy", "restorecfg",
             "version", "cleanup", "except"}

\* C1: when the backup cannot be created for an update of an existing install
\* directory, apply_update is over at once, returns failure, and the install
\* directory is exactly what it was when the operation began.
C1_BackupFailureAborts ==
    \A t \in Threads :
        th[t].backup = "failed" =>
            /\ Done(t)
            /\ th[t].result = "false"
            /\ install = th[t].pre
C1_Witness ==
    \E t \in Threads :
        /\ th[t].backup = "failed"
        /\ Done(t)
        /\ th[t].pre.exists
        /\ DOMAIN th[t].pre.files # {}

\* C2, as claimed: after a fault in a step that follows the removal of the old
\* install directory, with a backup taken at the start, the install directory at the
\* end of the operation is its pre-update state.
C2_Original ==
    \A t \in Threads :
        (Done(t) /\ th[t].backup = "created" /\ th[t].faultAt \in AfterDelete)
            => install = th[t].pre
\* C2, amended: the same, when the restore of the backup completed without error.
C2_RollbackRestoresInstall ==
    \A t \in Threads :
        (Done(t) /\ th[t].backup = "created" /\ th[t].faultAt \in AfterDelete
                 /\ th[t].restored = "ok")
            => install = th[t].pre
C2_Witness ==
    \E t \in Threads :
        /\ Done(t)
        /\ th[t].backup = "created"
        /\ th[t].faultAt = "version"
        /\ th[t].restored = "ok"
        /\ DOMAIN th[t].update_path.tree # {}
        /\ install = th[t].pre

\* C3: after a successful update every whitelisted file that was in the install
\* directory before the update is there with its content of before.
C3_ConfigPreserved ==
    \A t \in Threads :
        (Done(t) /\ th[t].result = "true") =>
            \A f \in KeepSet \cap DOMAIN th[t].pre.files :
                /\ f \in DOMAIN install.files
                /\ install.files[f] = th[t].pre.files[f]
C3_Witness ==
    \E t \in Threads :
        /\ Done(t)
        /\ th[t].result = "true"
        /\ <<"", "config.json">> \in DOMAIN th[t].pre.files
        /\ \E d \in KeywordNames :
             /\ <<d, "config.json">> \in DOMAIN th[t].update_path.tree
             /\ th[t].update_path.tree[<<d, "config.json">>]
                    # th[t].pre.files[<<"", "config.json">>]

\* C4: a downloaded package whose hash differs from the hash the manifest declares
\* gets no further than verification: the operation ends reporting the failed
\* verification, with the install directory and the backup directory as they were.
C4_HashMismatchAborts ==
    \A t \in Threads :
        ( /\ th[t].kind \in Downloads
          /\ th[t].update_path # NoPkg
          /\ th[t].manifest_hash # ""
          /\ th[t].update_path.hash # th[t].manifest_hash
          /\ th[t].pc # "verify" )
        => /\ Done(t)
           /\ th[t].report = "Update verification failed"
           /\ install = th[t].pre
           /\ DOMAIN backups = th[t].preBackups

\* C5: after 6 or more consecutive successful updates that each created a backup,
\* the backup directory holds exactly 5 snapshots, those of the last 5 updates.
C5_RotationKeepsLastFive ==
    streak >= KEEP_BACKUPS + 1 =>
        /\ Cardinality(DOMAIN backups) = KEEP_BACKUPS
        /\ DOMAIN backups = {recent[i] : i \in 1..Len(recent)}

\* C6: after a successful update of an existing installation to the release the
\* update check announced, version.txt holds that release's version and the backup
\* directory holds exactly one snapshot it did not hold before.
C6_VersionRecorded ==
    \A t \in Threads :
        (Done(t) /\ th[t].result = "true" /\ th[t].kind \in Downloads /\ th[t].pre.exists)
        => /\ VersionFile \in DOMAIN install.files
           /\ install.files[VersionFile] = th[t].latest_version
           /\ Cardinality(DOMAIN backups \ th[t].preBackups) = 1

\* C7: a rollback that restored the backup and a rollback whose restore failed are
\* never reported to the caller in the same way.
C7_FailedRestoreSurfaced ==
    \A a, b \in outcomes : a[1] # b[1] => a[2] # b[2]

\* C8: at most one operation at a time is between the removal of the install
\* directory and the end of its commit or rollback.
InStaging(t) ==
    \/ th[t].pc \in AfterDelete
    \/ th[t].pc = "except" /\ th[t].faultAt \in AfterDelete
C8_StagingExclusive ==
    \A t, u \in Threads : (t # u /\ InStaging(t)) => ~InStaging(u)

\* C9: apply_update runs only on a package that verify_update accepted.
C9_ApplyOnlyVerified ==
    \A t \in Threads : th[t].pc \in ApplyPcs => th[t].verified = "ok"

\* C10: when an update operation that downloaded a package is over, the package
\* file is gone.
C10_PackageRemoved ==
    \A t \in Threads :
        (Done(t) /\ th[t].kind \in Downloads /\ th[t].update_path # NoPkg)
            => ~th[t].onDisk

\* C11: when an installation that completed is followed at once by another one
\* that completes, with the same files beside bootstrapper.py, then
\* check_installation holds after each of the two and the version in config.json
\* is the same after each.
C11_ReinstallIdempotent ==
    \A t \in Threads :
        ( /\ Done(t) /\ th[t].kind \in Installs /\ th[t].result = "true"
          /\ last.kind \in Installs /\ last.result = "true" )
        => /\ last.installed
           /\ check_installation(install)
           /\ PersistedVersion(install) = last.version

\* C12: in a successful update nothing is created, changed or deleted once the
\* version record is written: the step that ends the operation with success leaves
\* the install directory, the temp extraction dir and the package file alone.
C12_VersionWriteIsLast ==
    [][\A t \in Threads :
          (th[t].pc = "cleanup" /\ th'[t].result = "true")
              => /\ install' = install
                 /\ th'[t].temp_extract = th[t].temp_extract
                 /\ th'[t].onDisk = th[t].onDisk]_vars

\* C13: when the update check reached neither the release page nor the manifest,
\* the user is not told that the latest version is installed.
C13_CheckFailureReported ==
    \A t \in Threads :
        th[t].error => th[t].report # "You have the latest version"

\* C14: when an update to the version the update check announced has succeeded,
\* the next update check that finds the same version announced reports no update.
C14_NoUpdateAfterUpdate ==
    [][\A t \in Threads :
          ( /\ th[t].pc = "idle"
            /\ th'[t].kind \in Downloads
            /\ last.kind \in Downloads
            /\ last.result = "true"
            /\ th'[t].latest_version = last.latest_version )
          => ~th'[t].available]_vars

\* C15: a command ends with exit code 0 exactly when it succeeded.
C15_ExitCodeTellsFailure ==
    \A t \in Threads :
        th[t].exit # NoExit => (th[t].exit = 0 <=> th[t].result = "true")

\* C16: the percentages an operation has passed to its progress callback never
\* decrease.
C16_ProgressMonotone ==
    \A t \in Threads :
        \A i, j \in DOMAIN th[t].progress :
            i < j => th[t].progress[i] <= th[t].progress[j]

\* C17: when the status command finds the application installed after a
\* successful update, the version it prints is the one the update wrote into
\* version.txt.
C17_StatusPrintsRecorded ==
    \A t \in Threads :
        ( /\ Done(t) /\ th[t].kind = "status"
          /\ check_installation(install)
          /\ last.kind \in Downloads \cup {"manual"}
          /\ last.result = "true" )
        => /\ VersionFile \in DOMAIN install.files
           /\ th[t].printed = install.files[VersionFile]

\* C18: an installation started on a machine that fails a pre-flight check ends
\* with a failure and leaves the install directory, the config directory and the
\* snapshots as they were.
C18_PreflightFailureTouchesNothing ==
    \A t \in Threads :
        (th[t].kind \in Installs /\ th[t].preflight # "ok")
        => /\ Done(t)
           /\ th[t].result = "false"
           /\ install = th[t].pre
           /\ cfgArea = th[t].preCfg
           /\ DOMAIN backups = th[t].preBackups

\* C19: when the download yields no package, the operation is over: nothing was
\* verified, applied or backed up, and the install directory and the set of
\* snapshots are what they were when the operation began.
C19_DownloadFailureAborts ==
    \A t \in Threads :
        ( /\ th[t].kind \in Downloads
          /\ th[t].update_path = NoPkg
          /\ th[t].pc \notin {"idle", "download"} )
        => /\ Done(t)
           /\ th[t].verified = "none"
           /\ th[t].backup = "none"
           /\ th[t].result = "none"
           /\ install = th[t].pre
           /\ DOMAIN backups = th[t].preBackups
C19_Witness ==
    \E t \in Threads :
        /\ Done(t)
        /\ th[t].report = "Failed to download update"
        /\ th[t].update_path = NoPkg
        /\ th[t].progress # << >>
        /\ th[t].pre.exists
        /\ install = th[t].pre

\* C20: a package named *.zip, *.tar, *.tar.gz or *.tgz is never turned down as
\* of an unsupported format, and a package of any other name is never extracted.
SupportedNames == {"update.zip", "pkg.tar", "pkg.tar.gz", "pkg.tgz"}
C20_FormatByExtension ==
    \A t \in Threads :
        /\ th[t].failed = "Unsupported archive format"
              => th[t].update_path.name \notin SupportedNames
        /\ th[t].temp_extract # EmptyTree
              => th[t].update_path.name \in SupportedNames

\* the top-level directories of an extracted tree that hold the keyword, and the
\* files a package brings into the install directory
AppDirs(tree) == {d \in TopDirs(tree) : HasKeyword(d)}
PackageFiles(tree) ==
    IF AppDirs(tree) # {} THEN AppTree(tree, CHOOSE d \in AppDirs(tree) : TRUE) ELSE tree
Updates == {"cli", "gui", "manual"}

\* C21: in an environment that raises no I/O error, the update with a well-formed
\* package that has no top-level directory holding the keyword succeeds, and every
\* file of the package is in the install directory.
C21_FallbackCopiesAll ==
    \A t \in Threads :
        ( /\ Done(t)
          /\ th[t].kind = "manual" \/ th[t].verified = "ok"
          /\ th[t].update_path # NoPkg
          /\ ~th[t].update_path.corrupt
          /\ IsZip(th[t].update_path.name) \/ IsTar(th[t].update_path.name)
          /\ AppDirs(th[t].update_path.tree) = {} )
        => /\ th[t].result = "true"
           /\ \A p \in DOMAIN th[t].update_path.tree :
                 /\ p \in DOMAIN install.files
                 /\ p \notin KeepSet => install.files[p] = th[t].update_path.tree[p]

\* C22: after a successful update every file of the install directory that is not
\* on the whitelist is the version record or a file of the package.
C22_OldFilesDiscarded ==
    \A t \in Threads :
        (Done(t) /\ th[t].kind \in Updates /\ th[t].result = "true") =>
            \A p \in DOMAIN install.files \ (KeepSet \cup {VersionFile}) :
                /\ p \in DOMAIN PackageFiles(th[t].update_path.tree)
                /\ install.files[p] = PackageFiles(th[t].update_path.tree)[p]
C22_Witness ==
    \E t \in Threads :
        /\ Done(t)
        /\ th[t].result = "true"
        /\ th[t].backup = "created"
        /\ {<<"", "old.dat">>, <<"data", "clicks.log">>} \subseteq DOMAIN th[t].pre.files
        /\ {<<"", "old.dat">>, <<"data", "clicks.log">>} \cap DOMAIN install.files = {}

\* C23: an update that took a backup and changed the install directory ends
\* either with the commit done (success returned) or with a restore attempted.
C23_CommitOrRollback ==
    \A t \in Threads :
        (Done(t) /\ th[t].kind \in Updates /\ th[t].backup = "created"
                 /\ install # th[t].pre)
            => (th[t].result = "true" \/ th[t].restored # "none")

\* C24, as claimed: the backup directory never holds more than 5 snapshots.
C24_Original ==
    Cardinality(DOMAIN backups) <= KEEP_BACKUPS
\* C24, amended: when _create_backup has returned a snapshot path, the backup
\* directory holds at most 5 snapshots.
C24_RotationBoundsSnapshots ==
    \A t \in Threads :
        (th[t].pc = "extract" /\ th[t].backup = "created")
            => Cardinality(DOMAIN backups) <= KEEP_BACKUPS
C24_Witness ==
    \E t \in Threads :
        /\ th[t].pc = "extract"
        /\ th[t].backup = "created"
        /\ Cardinality(th[t].preBackups) >= KEEP_BACKUPS
        /\ th[t].backup_path \notin th[t].preBackups
        /\ Cardinality(DOMAIN backups) = KEEP_BACKUPS

\* C25: the snapshot _create_backup has just written holds exactly the files of
\* the install directory, under their relative paths and with their contents; and
\* when the restore of the snapshot has completed, the install directory holds
\* exactly the files it held when the snapshot was taken.
C25_BackupRestoreRoundTrip ==
    \A t \in Threads :
        /\ (th[t].pc = "extract" /\ th[t].backup = "created")
              => /\ th[t].backup_path \in DOMAIN backups
                 /\ backups[th[t].backup_path] = th[t].pre.files
        /\ th[t].restored = "ok" => install = Dir(th[t].pre.files)
C25_Witness ==
    \E t \in Threads :
        /\ th[t].restored = "ok"
        /\ th[t].faultAt = "copy"
        /\ <<"data", "clicks.log">> \in DOMAIN th[t].pre.files
        /\ install = Dir(th[t].pre.files)

\* C26: as long as the package is not completely extracted the install directory
\* is what it was when the operation began: it is so when the extraction fails
\* or turns the package down, and whenever apply_update has changed it the temp
\* directory holds the whole package.
C26_ExtractBeforeRemove ==
    \A t \in Threads :
        /\ ( \/ th[t].pc = "except" /\ th[t].faultAt = "extract"
             \/ th[t].failed = "Unsupported archive format" )
              => install = th[t].pre
        /\ (th[t].pc \in ApplyPcs \ {"except"} /\ install # th[t].pre)
              => /\ th[t].temp_extract = th[t].update_path.tree
                 /\ IsZip(th[t].update_path.name) \/ IsTar(th[t].update_path.name)
C26_Witness ==
    \E t \in Threads :
        /\ th[t].pc = "except"
        /\ th[t].faultAt = "extract"
        /\ th[t].update_path.corrupt
        /\ th[t].backup = "created"
        /\ DOMAIN th[t].pre.files # {}
        /\ install = th[t].pre

\* C27: after a successful update, every whitelisted file of the install directory
\* is the one the install directory held when the update began, or the one of the
\* package.
C27_NoStaleConfigs ==
    \A t \in Threads :
        (Done(t) /\ th[t].kind \in Updates /\ th[t].result = "true") =>
            \A f \in KeepSet \cap DOMAIN install.files :
                \/ /\ f \in DOMAIN th[t].pre.files
                   /\ install.files[f] = th[t].pre.files[f]
                \/ /\ f \in DOMAIN PackageFiles(th[t].update_path.tree)
                   /\ install.files[f] = PackageFiles(th[t].update_path.tree)[f]

\* C28: when _create_backup has returned a snapshot path, the snapshot is in the
\* backup directory, and it still is when the except block of the same update
\* is about to restore it.
C28_NewSnapshotSurvivesRotation ==
    \A t \in Threads :
        (th[t].backup = "created" /\ th[t].pc \in {"extract", "except"})
            => th[t].backup_path \in DOMAIN backups

\* C30: no two click threads are in the body of _autoclicker_loop at once, each
\* having found clicking true at its loop test and about to click.
C30_OneClickLoop ==
    Cardinality({i \in LoopIds : clicker.loop[i].pc = "click"}) <= 1

\* C29: a package that apply_update turns down as of an unsupported format is
\* one that verify_update does not accept.
C29_VerifyAgreesWithApply ==
    \A t \in Threads :
        th[t].failed = "Unsupported archive format"
            => ~verify_update(th[t].update_path, "")

====
